---- MODULE Spec2Model ----
(***************************************************************************)
(* The particle animation engine of ConfettiPopperProvider                 *)
(* (src/unnamed/part_000): the live population particlesRef, the           *)
(* scheduled-frame handle frameRef, the frame-timing window fpsRef, the    *)
(* sticky poorPerformanceDetectedRef flag and the three operations         *)
(* triggerConfettiPopper, animate (one requestAnimationFrame callback)     *)
(* and stopAnimation.                                                      *)
(*                                                                         *)
(* Units.  Time is in milliseconds.  Vertical positions, velocities and    *)
(* gravity are in hundredths of a pixel, so that the defaults 0.15, 0.07,  *)
(* 0.1 and -0.1 are the integers 15, 7, 10 and -10 and y += vy,            *)
(* vy += gravity are exact.  alpha is in units of 1/AlphaOne; every        *)
(* duration used divides AlphaOne, so 1 - age/duration is exact.           *)
(*                                                                         *)
(* A particle carries identity, type, x, y, vx, vy, gravity, drag, alpha,  *)
(* createdAt, duration, colour, rotation, the balloon's wobble fields and  *)
(* the optional confettiShape and shimmerOffset.  Horizontal positions are *)
(* in hundredths of a pixel like the vertical ones, angles in units of     *)
(* 1/200 radian.  Size and emoji are drawn and painted by the code but     *)
(* never read by the population, scheduling or performance logic.          *)
(* A callback that requestAnimationFrame holds is an element of rafQueue;  *)
(* frameRef is the handle the engine remembers, which need not be pending  *)
(* any more.  The viewport of a run is fixed when the run starts.          *)
(***************************************************************************)
EXTENDS Integers, Sequences, FiniteSets, TLC

VARIABLES
    maxParticles,               \* constructor parameter (line 174)
    disableOnLowPerformance,    \* constructor parameter (line 175)
    particlesRef,               \* the live population, oldest first
    frameRef,                   \* handle of the scheduled frame, 0 for null
    rafQueue,                   \* handles of the callbacks the browser still holds
    isAnimating,                \* the React state exposed to the host
    lastFrameTimeRef,           \* timestamp of the previous frame, 0 after a reset
    fpsRef,                     \* the rolling window of frames-per-second samples
    poorPerformanceDetectedRef, \* the sticky performance-degraded flag
    mousePositionRef,           \* last pointer position seen by handleMouseMove
    innerWidth,                 \* window.innerWidth
    innerHeight,                \* window.innerHeight
    clock,                      \* the time, as Date.now() and as frame timestamp
    nextId,                     \* identity of the next particle object created
    nTriggers,                  \* number of trigger calls made so far
    nFast,                      \* number of fast frames delivered so far
    slowRun,                    \* consecutive slow frames seen with more than 50 particles
    last                        \* what the most recent operation was and did

vars == <<maxParticles, disableOnLowPerformance, particlesRef, frameRef, rafQueue,
          isAnimating, lastFrameTimeRef, fpsRef, poorPerformanceDetectedRef,
          mousePositionRef, innerWidth, innerHeight,
          clock, nextId, nTriggers, nFast, slowRun, last>>

\* what the engine reads from the window and the pointer
host == <<mousePositionRef, innerWidth, innerHeight>>

----------------------------------------------------------------------------
(* Bounds of the exploration *)

\* maxParticles is drawn from 1..MaxMaxParticles
MaxMaxParticles == 3
\* trigger calls per run
MaxTriggers == 2
\* fast frames per run
MaxFastTicks == 1
\* the run ends when the clock would pass MaxClock (short runs) ...
MaxClock == 120
\* ... or MaxClockPerf (the long runs that fill the frame-timing window)
MaxClockPerf == 1300

----------------------------------------------------------------------------
(* Program constants *)

\* line 240: fpsRef keeps at most 30 samples
FpsWindow == 30
\* line 249: the average below which performance is poor
MinFps == 30
\* lines 250, 253: the population above which, and to which, the guard truncates
PerfKeep == 50
\* line 588: the count clamp under degraded performance
DegradedCount == 20
\* line 535: vertical culling margin, 100 px
CullMargin == 10000
\* line 620: default origin y is 0.9 of the viewport height (in tenths)
DefaultOriginY10 == 9
\* line 644: drag 0.02, in hundredths
Drag == 2
\* line 640: alpha 1
AlphaOne == 12000
\* line 238: 1000 / 0, the sample of a frame with no elapsed time
Infinity == 1000000
\* line 535: window.innerHeight, 200 px
InnerHeight == 20000
\* line 563: window.innerWidth, 300 px
InnerWidth == 30000
\* line 620: default origin x is 0.5 of the viewport width (in tenths)
DefaultOriginX10 == 5
\* lines 628, 651: Math.PI, in 1/200 radian
Pi200 == 628
\* line 233: the spacings of the frame timestamps the browser delivers, 4 ms
\* (250 fps) and 40 ms (25 fps)
FrameSpacings == <<4, 40>>
DtFast == FrameSpacings[1]
DtSlow == FrameSpacings[2]

\* line 11: ParticleType
Kinds == {"confetti", "balloon", "star", "heart", "emoji"}

\* lines 66-72: the enum's five values
ConfettiShape == {"rectangle", "square", "circle", "triangle", "strip"}

\* an optional property (lines 86-95): undefined, or the value it holds
undefined == << >>
Some(v) == <<v>>
\* opt ?? default (lines 288-290)
OrElse(opt, default) == IF opt = undefined THEN default ELSE opt[1]

\* lines 99-157: count, gravity, speed, duration and the palette of each kind
\* (star and emoji have none); a colour "r,g,b" is the triple <<r, g, b>>
DEFAULT_CONFIG ==
    [confetti |-> [count |-> 150, gravity |-> 15, speed |-> 800, duration |-> 4000,
                   colors |-> << <<255, 50, 50>>, <<50, 100, 255>>, <<255, 100, 255>>,
                                 <<100, 255, 100>>, <<255, 255, 50>>, <<255, 150, 50>> >>],
     balloon  |-> [count |-> 12, gravity |-> -10, speed |-> 800, duration |-> 6000,
                   colors |-> << <<255, 50, 50>>, <<50, 100, 255>>, <<255, 100, 255>>,
                                 <<100, 255, 100>>, <<255, 200, 50>> >>],
     star     |-> [count |-> 50, gravity |-> 7, speed |-> 800, duration |-> 4000],
     heart    |-> [count |-> 40, gravity |-> 7, speed |-> 800, duration |-> 4000,
                   colors |-> << <<255, 0, 100>>, <<255, 50, 150>>, <<200, 0, 50>> >>],
     emoji    |-> [count |-> 35, gravity |-> 10, speed |-> 800, duration |-> 4000]]

\* lines 160-169
DEFAULT_COLORS ==
    << <<255, 0, 0>>, <<0, 255, 0>>, <<0, 0, 255>>, <<255, 255, 0>>,
       <<255, 0, 255>>, <<0, 255, 255>>, <<255, 165, 0>>, <<128, 0, 128>> >>

----------------------------------------------------------------------------
(* Trigger configurations.  A PopperConfig is the ordered list of its      *)
(* own keys; an entry's value is a boolean or an options object, and an    *)
(* options object is a function defined on the fields it gives.            *)

Bool(b) == [tag |-> "bool", b |-> b, o |-> [none |-> 0]]
Obj(o) == [tag |-> "object", b |-> TRUE, o |-> o]
Entry(k, v) == [key |-> k, val |-> v]

\* line 30: an origin option is a pair of fractions (here in tenths), "center"
\* or "mouse"; NoOrigin is the undefined that getOrigin also accepts
Point(x, y) == [tag |-> "point", x |-> x, y |-> y]
Center == [tag |-> "center", x |-> 0, y |-> 0]
Mouse == [tag |-> "mouse", x |-> 0, y |-> 0]
NoOrigin == [tag |-> "undefined", x |-> 0, y |-> 0]

\* line 578 with { balloon: true } as the default argument
NoArgConfigBalloon == <<Entry("balloon", Bool(TRUE))>>

\* line 578: the default argument { confetti: true }
NoArgConfig == <<Entry("confetti", Bool(TRUE))>>

\* the configurations the host passes in the short runs
Configs ==
    { NoArgConfig,
      <<Entry("confetti", Obj([count |-> 1, duration |-> 100]))>>,
      <<Entry("confetti", Obj([count |-> 3])), Entry("star", Bool(FALSE))>>,
      <<Entry("balloon", Obj([count |-> 2])), Entry("heart", Obj([count |-> 1, duration |-> 100]))>> }

\* the configurations the host passes in the long runs
PerfConfigs ==
    { NoArgConfig,
      <<Entry("confetti", Obj([count |-> 51]))>>,
      <<Entry("star", Obj([count |-> 25, gravity |-> 7, duration |-> 4000])),
        Entry("balloon", Bool(TRUE)),
        Entry("heart", Obj([count |-> 0])), Entry("emoji", Obj([count |-> -1]))>> }

\* Math.random() is modelled by two outcomes, 0 and 1/2: draw number i of a
\* trigger call seeded with seed returns Rand(seed, i) / 2
Seeds == {0}
Rand(seed, i) == (seed + i) % 2

----------------------------------------------------------------------------
(* Helpers *)

Min(a, b) == IF a < b THEN a ELSE b
Max(a, b) == IF a > b THEN a ELSE b

RECURSIVE SumSeq(_)
SumSeq(s) == IF s = <<>> THEN 0 ELSE Head(s) + SumSeq(Tail(s))

Ids(ps) == [i \in 1..Len(ps) |-> ps[i].id]

\* Array.prototype.slice(start) for an integer or half-integer start given as
\* num/2: the start is truncated toward zero, a negative start counts from
\* the end, and -0 is 0 (ECMAScript ToIntegerOrInfinity)
SliceFromHalf(s, num) ==
    LET n == Len(s)
        t == IF num >= 0 THEN num \div 2 ELSE -((-num) \div 2)
        k == IF t < 0 THEN Max(n + t, 0) ELSE Min(t, n)
    IN  SubSeq(s, k + 1, n)

\* Array.prototype.slice(-end) in place of slice(0, end), for 0 < end
SliceToNewest(s, end) == SubSeq(s, Max(Len(s) - end, 0) + 1, Len(s))

\* Array.prototype.slice(0, end) for 0 <= end
SliceTo(s, end) == SubSeq(s, 1, Min(end, Len(s)))

\* requestAnimationFrame returns a handle no pending callback and no stored
\* handle uses
FreshHandle == CHOOSE h \in 1..(Cardinality(rafQueue) + 2) : h \notin (rafQueue \cup {frameRef})

----------------------------------------------------------------------------
(* triggerConfettiPopper, lines 577-684 *)

\* lines 584-589: count || DEFAULT_CONFIG[type].count || 20, at most 20
ClampedCount(type, o) ==
    LET own == IF "count" \in DOMAIN o THEN o.count ELSE 0
        req == IF own # 0 THEN own
               ELSE IF DEFAULT_CONFIG[type].count # 0 THEN DEFAULT_CONFIG[type].count
               ELSE DegradedCount
    IN  Min(req, DegradedCount)

\* lines 583-590 with every entry replaced by { count: 20 }
ClampEntryAll(e) == Entry(e.key, Obj([count |-> DegradedCount]))

\* lines 583-590: only truthy object entries are rewritten
ClampEntry(e) ==
    IF e.val.tag = "object"
    THEN Entry(e.key, Obj([f \in DOMAIN e.val.o \cup {"count"} |->
                              IF f = "count" THEN ClampedCount(e.key, e.val.o)
                              ELSE e.val.o[f]]))
    ELSE e

\* lines 580-592
ClampConfig(config, degraded) ==
    IF degraded THEN [i \in 1..Len(config) |-> ClampEntry(config[i])] ELSE config

\* lines 584-589: reading DEFAULT_CONFIG[type].count raises a TypeError for
\* an object entry of a key outside the table whose count is missing or 0
ClampEntryThrows(e) ==
    /\ e.val.tag = "object"
    /\ e.key \notin Kinds
    /\ ("count" \in DOMAIN e.val.o => e.val.o.count = 0)

\* lines 580-592: the caller's config object when the call is over.  The
\* clamp assigns into the caller's own option objects, entry by entry, and an
\* entry that throws stops it: that entry and the later ones are as passed
ConfigAfter(config, degraded) ==
    IF degraded
    THEN [i \in 1..Len(config) |->
             IF \E j \in 1..i : ClampEntryThrows(config[j]) THEN config[i]
             ELSE ClampEntry(config[i])]
    ELSE config

\* lines 595-597 with the slice taken whatever the length
EvictAlways(ps, maxP) == SliceFromHalf(ps, -maxP)

\* lines 595-597
Evict(ps, maxP) ==
    IF Len(ps) >= maxP THEN SliceFromHalf(ps, -maxP) ELSE ps

\* line 610: ...DEFAULT_CONFIG[type] contributes no field when the table has
\* no such key
SpreadDefaults(type) == IF type \in Kinds THEN DEFAULT_CONFIG[type] ELSE << >>

\* lines 607-610
Options(e) ==
    IF e.val.tag = "bool" THEN DEFAULT_CONFIG[e.key]
    ELSE [f \in DOMAIN SpreadDefaults(e.key) \cup DOMAIN e.val.o |->
             IF f \in DOMAIN e.val.o THEN e.val.o[f] ELSE DEFAULT_CONFIG[e.key][f]]

\* lines 612-622: the option fields whose default initializer reads
\* DEFAULT_CONFIG[type]
Destructured == {"count", "gravity", "speed", "size", "duration", "colors", "emoji", "spread"}

\* lines 607-622: the entry raises a TypeError.  For a key outside the table
\* DEFAULT_CONFIG[type] is undefined: destructuring it (a true entry) throws,
\* and so does the initializer of any field the options object leaves out
EntryThrows(e) ==
    /\ e.key \notin Kinds
    /\ \/ e.val.tag = "bool" /\ e.val.b
       \/ e.val.tag = "object" /\ ~(Destructured \subseteq DOMAIN e.val.o)

\* lines 602-671: some entry throws
PlanThrows(config) == \E i \in 1..Len(config) : EntryThrows(config[i])

\* lines 583-589: under degraded performance DEFAULT_CONFIG[type].count is read
\* for an object entry whose count is missing or 0
ClampThrows(config) ==
    \E i \in 1..Len(config) :
        /\ config[i].val.tag = "object"
        /\ config[i].key \notin Kinds
        /\ ("count" \in DOMAIN config[i].val.o => config[i].val.o.count = 0)

\* lines 560-574 with every origin resolved to the viewport centre
getOriginCentre(origin) == [x |-> innerWidth \div 2, y |-> innerHeight \div 2]

\* lines 560-574
getOrigin(origin) ==
    IF origin.tag \in {"undefined", "center"}
    THEN [x |-> innerWidth \div 2, y |-> innerHeight \div 2]
    ELSE IF origin.tag = "mouse" THEN mousePositionRef
    ELSE [x |-> (origin.x * innerWidth) \div 10, y |-> (origin.y * innerHeight) \div 10]

\* line 620 without the default: an absent origin stays undefined
OriginConfigAbsent(options) ==
    IF "origin" \in DOMAIN options THEN options.origin ELSE NoOrigin

\* line 620: origin: originConfig = { x: 0.5, y: 0.9 }
OriginConfig(options) ==
    IF "origin" \in DOMAIN options THEN options.origin
    ELSE Point(DefaultOriginX10, DefaultOriginY10)

\* line 619: colors = DEFAULT_CONFIG[type].colors, undefined when neither the
\* options nor the table give a palette
Colors(type, options) ==
    IF "colors" \in DOMAIN options THEN Some(options.colors) ELSE undefined

\* lines 226-229, with the draw r / 2
generateColor(colors, r) ==
    LET colorArray == IF colors # undefined /\ Len(colors[1]) > 0 THEN colors[1]
                      ELSE DEFAULT_COLORS
    IN  colorArray[(r * Len(colorArray)) \div 2 + 1]

\* lines 657-663: Math.floor(Math.random() * 55 + 200), ... + 150, ... + 200
BrightColor(r) == <<(55 * r) \div 2 + 200, (55 * r) \div 2 + 150, (55 * r) \div 2 + 200>>

\* lines 641, 656-664: the palette pick, replaced for a balloon whose colors
\* is falsy
ColorOf(type, colors, r) ==
    IF type = "balloon" /\ colors = undefined THEN BrightColor(r)
    ELSE generateColor(colors, r)

\* lines 632-667: particle number i (from 0) of an entry.  Every draw of the
\* particle is r / 2 except the angle draw, taken at 1/2: the angle is pi/2,
\* straight up, so that vx = 0 and vy = -speedValue.  The object literal has
\* no confettiShape and no shimmerOffset, and no later statement adds them
NewParticle(type, options, i, seed, now, id) ==
    LET r == Rand(seed, i)
        speedValue == (r * options.speed) \div 2 + options.speed \div 2
        origin == getOrigin(OriginConfig(options))
        balloon == type = "balloon"
    IN  [id              |-> id,
         type            |-> type,
         x               |-> origin.x,
         y               |-> origin.y,
         vx              |-> IF balloon THEN 25 * r - 25 ELSE 0,
         vy              |-> IF balloon THEN -(75 * r) - 50 ELSE -speedValue,
         gravity         |-> options.gravity,
         drag            |-> Drag,
         alpha           |-> AlphaOne,
         createdAt       |-> now,
         duration        |-> options.duration,
         color           |-> ColorOf(type, Colors(type, options), r),
         rotation        |-> (r * Pi200) \div 2,
         rotationSpeed   |-> 20 * r - 20,
         wobble          |-> IF balloon THEN Some(r * Pi200) ELSE undefined,
         wobbleSpeed     |-> IF balloon THEN Some(5 * r + 4) ELSE undefined,
         wobbleAmplitude |-> IF balloon THEN Some(2 * r + 2) ELSE undefined,
         confettiShape   |-> undefined,
         shimmerOffset   |-> undefined]

\* lines 603-671 for one entry: the particles it creates, ids from id0
EntryParticles(e, seed, now, id0) ==
    IF e.val.tag = "bool" /\ ~e.val.b THEN <<>>
    ELSE LET options == Options(e)
             count == Max(options.count, 0)
         IN  [i \in 1..count |-> NewParticle(e.key, options, i - 1, seed, now, id0 + i - 1)]

RECURSIVE Plan(_, _, _, _)
\* lines 600-671: newParticles
Plan(config, seed, now, id0) ==
    IF config = <<>> THEN <<>>
    ELSE LET first == EntryParticles(Head(config), seed, now, id0)
         IN  first \o Plan(Tail(config), seed, now, id0 + Len(first))

\* line 677 with a frame requested by every call
RequestNeededAlways(frame) == TRUE

\* line 677: if (!frameRef.current)
RequestNeeded(frame) == frame = 0

\* arg is the argument list after the provider's maxParticles: empty, or the
\* one config passed.  A TypeError leaves the function at once: the eviction
\* has happened unless the clamp threw, newParticles is lost and no frame is
\* requested
triggerConfettiPopper(arg, seed) ==
    LET config == IF arg = << >> THEN NoArgConfig ELSE arg[1]
        degraded == poorPerformanceDetectedRef
        threwEarly == degraded /\ ClampThrows(config)
        clamped == ClampConfig(config, degraded)
        threw == threwEarly \/ PlanThrows(clamped)
        kept == IF threwEarly THEN particlesRef ELSE Evict(particlesRef, maxParticles)
        newParticles == IF threw THEN << >> ELSE Plan(clamped, seed, clock, nextId)
        start == ~threw /\ RequestNeeded(frameRef)
        h == FreshHandle
    IN  /\ particlesRef' = kept \o newParticles
        /\ nextId' = nextId + Len(newParticles)
        /\ lastFrameTimeRef' = IF start THEN 0 ELSE lastFrameTimeRef
        /\ fpsRef' = IF start THEN <<>> ELSE fpsRef
        /\ frameRef' = IF start THEN h ELSE frameRef
        /\ rafQueue' = IF start THEN rafQueue \cup {h} ELSE rafQueue
        /\ nTriggers' = nTriggers + 1
        /\ last' = [op |-> "trigger", prev |-> last.op, before |-> Ids(particlesRef),
                    firstId |-> nextId, degraded |-> degraded,
                    config |-> config, configAfter |-> ConfigAfter(config, degraded),
                    slow |-> FALSE, canvas |-> TRUE,
                    queued |-> rafQueue # {}, threw |-> threw, noArg |-> arg = << >>]
        /\ UNCHANGED <<maxParticles, disableOnLowPerformance, isAnimating,
                       poorPerformanceDetectedRef, clock, nFast, slowRun>>
        /\ UNCHANGED host

----------------------------------------------------------------------------
(* animate, lines 232-547: one requestAnimationFrame callback *)

\* line 238: 1000 / deltaTime; every frame spacing used divides 1000
FpsOf(deltaTime) == IF deltaTime = 0 THEN Infinity ELSE 1000 \div deltaTime

\* lines 239-242: push, and shift once more than 30 samples are held
PushFps(window, fps) ==
    IF Len(window) + 1 > FpsWindow THEN Tail(Append(window, fps)) ELSE Append(window, fps)

\* lines 240-251 without the disableOnLowPerformance conjunct
PoorPerformanceAlways(window, fps, enabled, population) ==
    /\ Len(window) + 1 > FpsWindow
    /\ SumSeq(Tail(Append(window, fps))) < MinFps * FpsWindow
    /\ population > PerfKeep

\* lines 240-251: the guard's condition, evaluated only when a sample was shifted out
PoorPerformance(window, fps, enabled, population) ==
    /\ Len(window) + 1 > FpsWindow
    /\ enabled
    /\ SumSeq(PushFps(window, fps)) < MinFps * Len(PushFps(window, fps))
    /\ population > PerfKeep

\* line 252 with the flag following the current measurement
SetPoorFlagFollows(flag, poor) == poor

\* line 252: the flag is only ever assigned true
SetPoorFlag(flag, poor) == flag \/ poor

\* lines 283-285 with the fade never applied
FadeNever(p, now) == p.alpha

\* lines 283-285 with the fade starting over every duration milliseconds
FadeRestarts(p, now) ==
    IF p.duration > 0
    THEN Max(0, AlphaOne - (((now - p.createdAt) % p.duration) * AlphaOne) \div p.duration)
    ELSE p.alpha

\* lines 281-285 (and 292-296, 304-308, 317-321): the duration-based fade
Fade(p, now) ==
    IF p.duration > 0
    THEN Max(0, AlphaOne - ((now - p.createdAt) * AlphaOne) \div p.duration)
    ELSE p.alpha

\* Math.sin (line 288) of an angle in 1/200 radian, in hundredths, by
\* Bhaskara's rational approximation 16u(pi - u) / (5 pi^2 - 4u(pi - u)) on
\* each half period
Sin100(w) ==
    LET t == w % (2 * Pi200)
        u == IF t <= Pi200 THEN t ELSE t - Pi200
        q == u * (Pi200 - u)
        m == (1600 * q) \div (5 * Pi200 * Pi200 - 4 * q)
    IN  IF t <= Pi200 THEN m ELSE -m

\* lines 277-279: the shimmer phase advances by 0.1 when the particle has one
Shimmer(p) ==
    IF p.type = "confetti" /\ p.shimmerOffset # undefined
    THEN Some(p.shimmerOffset[1] + 20)
    ELSE p.shimmerOffset

\* lines 268-322 with a balloon stepped as a star or heart is
StepParticleAllFall(p, now) ==
    [p EXCEPT !.x = p.x + p.vx,
              !.y = p.y + p.vy,
              !.vy = p.vy + p.gravity,
              !.vx = (p.vx * (100 - p.drag)) \div 100,
              !.rotation = p.rotation + p.rotationSpeed,
              !.alpha = Fade(p, now)]

\* lines 268-322: the physics step of one particle; a type that is none of
\* confetti, balloon and emoji takes the branch of star and heart
StepParticle(p, now) ==
    IF p.type = "balloon"
    THEN [p EXCEPT !.x = p.x + (Sin100(OrElse(p.wobble, 0)) * OrElse(p.wobbleAmplitude, 3)) \div 2,
                   !.y = p.y + p.vy,
                   !.wobble = Some(OrElse(p.wobble, 0) + OrElse(p.wobbleSpeed, 10)),
                   !.alpha = Fade(p, now)]
    ELSE [p EXCEPT !.x = p.x + p.vx,
                   !.y = p.y + p.vy,
                   !.vy = p.vy + p.gravity,
                   !.vx = (p.vx * (100 - p.drag)) \div 100,
                   !.rotation = p.rotation + p.rotationSpeed,
                   !.shimmerOffset = Shimmer(p),
                   !.alpha = Fade(p, now)]

StepAll(ps, now) == [i \in 1..Len(ps) |-> StepParticle(ps[i], now)]

\* line 535: the filter's predicate
Visible(p) == p.alpha > 0 /\ p.y < innerHeight + CullMargin /\ p.y > -CullMargin

\* lines 534-536
Cull(ps) == SelectSeq(ps, Visible)

\* lines 264, 325-326
HasVisibleParticles(ps) == \E i \in 1..Len(ps) : ps[i].alpha > 0

\* callback h runs dt milliseconds after the previous operation; canvasOk says
\* whether canvasRef.current and its 2d context exist
animate(h, dt, canvasOk) ==
    LET timestamp == clock + dt
        deltaTime == timestamp - (IF lastFrameTimeRef # 0 THEN lastFrameTimeRef ELSE timestamp)
        fps == FpsOf(deltaTime)
        poor == PoorPerformance(fpsRef, fps, disableOnLowPerformance, Len(particlesRef))
        guarded == IF poor THEN SliceTo(particlesRef, PerfKeep) ELSE particlesRef
        stepped == StepAll(guarded, timestamp)
        again == HasVisibleParticles(stepped)
        next == FreshHandle
        slow == 1000 < MinFps * dt
    IN  /\ h \in rafQueue
        /\ clock' = timestamp
        /\ lastFrameTimeRef' = timestamp
        /\ fpsRef' = PushFps(fpsRef, fps)
        /\ poorPerformanceDetectedRef' = SetPoorFlag(poorPerformanceDetectedRef, poor)
        /\ particlesRef' = IF canvasOk THEN Cull(stepped) ELSE guarded
        /\ frameRef' = IF ~canvasOk THEN frameRef ELSE IF again THEN next ELSE 0
        /\ rafQueue' = IF canvasOk /\ again THEN (rafQueue \ {h}) \cup {next} ELSE rafQueue \ {h}
        /\ isAnimating' = IF canvasOk THEN again ELSE isAnimating
        /\ nFast' = IF slow THEN nFast ELSE nFast + 1
        /\ slowRun' = IF slow /\ Len(particlesRef) > PerfKeep THEN Min(slowRun + 1, FpsWindow + 1) ELSE 0
        /\ last' = [op |-> "tick", prev |-> last.op, before |-> Ids(particlesRef),
                    firstId |-> nextId, degraded |-> poorPerformanceDetectedRef,
                    config |-> <<>>, configAfter |-> <<>>, slow |-> slow, canvas |-> canvasOk,
                    queued |-> rafQueue # {}, threw |-> FALSE, noArg |-> FALSE]
        /\ UNCHANGED <<maxParticles, disableOnLowPerformance, nextId, nTriggers>>
        /\ UNCHANGED host

----------------------------------------------------------------------------
(* stopAnimation, lines 550-557 *)

\* lines 551-553 without the cancelAnimationFrame call
CancelFrameForgets(queue, handle) == queue

\* lines 551-553: cancelAnimationFrame(frameRef.current) when a handle is stored
CancelFrame(queue, handle) == IF handle # 0 THEN queue \ {handle} ELSE queue

\* lines 550-557 without setIsAnimating(false)
stopAnimationKeepsFlag ==
    /\ frameRef' = 0
    /\ rafQueue' = IF frameRef # 0 THEN rafQueue \ {frameRef} ELSE rafQueue
    /\ particlesRef' = <<>>
    /\ slowRun' = 0
    /\ last' = [op |-> "stop", prev |-> last.op, before |-> Ids(particlesRef),
                firstId |-> nextId, degraded |-> poorPerformanceDetectedRef,
                config |-> <<>>, configAfter |-> <<>>, slow |-> FALSE, canvas |-> TRUE,
                queued |-> rafQueue # {}, threw |-> FALSE, noArg |-> FALSE]
    /\ UNCHANGED <<maxParticles, disableOnLowPerformance, lastFrameTimeRef, fpsRef,
                   poorPerformanceDetectedRef, clock, nextId, nTriggers, nFast,
                   isAnimating>>
    /\ UNCHANGED host

stopAnimation ==
    /\ frameRef' = 0
    /\ rafQueue' = CancelFrame(rafQueue, frameRef)
    /\ particlesRef' = <<>>
    /\ isAnimating' = FALSE
    /\ slowRun' = 0
    /\ last' = [op |-> "stop", prev |-> last.op, before |-> Ids(particlesRef),
                firstId |-> nextId, degraded |-> poorPerformanceDetectedRef,
                config |-> <<>>, configAfter |-> <<>>, slow |-> FALSE, canvas |-> TRUE,
                queued |-> rafQueue # {}, threw |-> FALSE, noArg |-> FALSE]
    /\ UNCHANGED <<maxParticles, disableOnLowPerformance, lastFrameTimeRef, fpsRef,
                   poorPerformanceDetectedRef, clock, nextId, nTriggers, nFast>>
    /\ UNCHANGED host

----------------------------------------------------------------------------
(* The provider after construction (lines 176-184) and its environment *)

Constructed(maxP, guard) ==
    /\ maxParticles = maxP
    /\ disableOnLowPerformance = guard
    /\ particlesRef = <<>>
    /\ frameRef = 0
    /\ rafQueue = {}
    /\ isAnimating = FALSE
    /\ lastFrameTimeRef = 0
    /\ fpsRef = <<>>
    /\ poorPerformanceDetectedRef = FALSE
    /\ mousePositionRef = [x |-> 0, y |-> 0]
    /\ clock = 0
    /\ nextId = 1
    /\ nTriggers = 0
    /\ nFast = 0
    /\ slowRun = 0
    /\ last = [op |-> "init", prev |-> "init", before |-> <<>>, firstId |-> 1,
               degraded |-> FALSE, config |-> <<>>, configAfter |-> <<>>, slow |-> FALSE, canvas |-> TRUE,
               queued |-> FALSE, threw |-> FALSE, noArg |-> FALSE]

\* the window the provider is mounted in
Window(w, h) == innerWidth = w /\ innerHeight = h

\* the argument lists that pass one of the given configurations
Given(configs) == {<<config>> : config \in configs}

\* the host calls trigger with one of the given argument lists, at one of the
\* given instants
TriggerStep(args, seeds, instants) ==
    \E arg \in args, seed \in seeds :
        /\ nTriggers < MaxTriggers
        /\ clock \in instants
        /\ triggerConfettiPopper(arg, seed)

\* the browser runs a pending callback, before the clock passes horizon; a
\* fast frame comes only at one of the given instants, and the canvas is
\* mounted or not as canvases allows
TickStep(horizon, fastInstants, canvases) ==
    \E h \in rafQueue, dt \in {DtFast, DtSlow}, canvasOk \in canvases :
        /\ clock + dt <= horizon
        /\ dt = DtFast => nFast < MaxFastTicks /\ clock \in fastInstants
        /\ animate(h, dt, canvasOk)

StopStep == stopAnimation

Init == \E maxP \in 1..MaxMaxParticles : Constructed(maxP, TRUE) /\ Window(InnerWidth, InnerHeight)

Next == TriggerStep(Given(Configs), Seeds, 0..MaxClock) \/ TickStep(MaxClock, 0..MaxClock, BOOLEAN) \/ StopStep

Spec == Init /\ [][Next]_vars

\* the instants at which the host triggers in the long runs
PerfInstants == {t + k * DtFast : t \in {0, 320, 1240, 1280}, k \in 0..MaxFastTicks}

\* the instants at which a fast frame may come in the long runs
PerfFastInstants == {40, 1240, 1280}

\* the long runs: the guard on or off
InitPerf == \E guard \in BOOLEAN : Constructed(MaxMaxParticles, guard) /\ Window(InnerWidth, InnerHeight)

NextPerf == TriggerStep(Given(PerfConfigs), {0}, PerfInstants) \/ TickStep(MaxClockPerf, PerfFastInstants, BOOLEAN) \/ StopStep

SpecPerf == InitPerf /\ [][NextPerf]_vars

----------------------------------------------------------------------------
(* The run of the Termination property: one trigger, then frames with the  *)
(* canvas mounted, every scheduled frame eventually delivered.             *)

\* the configurations of these runs: every particle has a duration > 0
TermConfigs ==
    { <<Entry("confetti", Obj([count |-> 1, duration |-> 100]))>>,
      <<Entry("confetti", Obj([count |-> 3, duration |-> 200])),
        Entry("balloon", Obj([count |-> 2, duration |-> 400]))>>,
      <<Entry("star", Obj([count |-> 2, duration |-> 400, gravity |-> 0])),
        Entry("emoji", Obj([count |-> 1, duration |-> 100]))>>,
      <<Entry("heart", Obj([count |-> 60, duration |-> 200]))>> }

\* the clock bound of these runs: past the longest duration above
MaxClockTerm == 500

NextTerm ==
    \/ nTriggers = 0 /\ TriggerStep(Given(TermConfigs), Seeds, {0})
    \/ TickStep(MaxClockTerm, 0..MaxClockTerm, {TRUE})

SpecTerm ==
    /\ Init
    /\ [][NextTerm]_vars
    /\ WF_vars(TickStep(MaxClockTerm, 0..MaxClockTerm, {TRUE}))

----------------------------------------------------------------------------
(* The runs that vary the origin option, the viewport and the pointer.     *)

\* lines 206-208
handleMouseMove(e) ==
    /\ mousePositionRef' = [x |-> e.clientX, y |-> e.clientY]
    /\ UNCHANGED <<maxParticles, disableOnLowPerformance, particlesRef, frameRef, rafQueue,
                   isAnimating, lastFrameTimeRef, fpsRef, poorPerformanceDetectedRef,
                   innerWidth, innerHeight, clock, nextId, nTriggers, nFast, slowRun, last>>

\* the viewports of these runs: 300 by 200 and 1000 by 800 pixels
Viewports == {<<InnerWidth, InnerHeight>>, <<100000, 80000>>}

\* the mousemove events of these runs
MouseEvents == {[clientX |-> 12000, clientY |-> 5000], [clientX |-> 0, clientY |-> 19900]}

\* the configurations of these runs: origins given as fractions, as "center",
\* as "mouse", and not given; the last one sends a confetti to exactly 100 px
\* above the top edge and a star to exactly 100 px below the bottom edge
ViewConfigs ==
    { <<Entry("confetti", Obj([count |-> 2, origin |-> Point(5, 5)]))>>,
      <<Entry("star", Obj([count |-> 1, origin |-> Center])), Entry("heart", Bool(TRUE))>>,
      <<Entry("emoji", Obj([count |-> 2, origin |-> Mouse])),
        Entry("balloon", Obj([count |-> 1, gravity |-> 500, origin |-> Point(2, 7)]))>>,
      <<Entry("balloon", Obj([count |-> 2])), Entry("star", Obj([count |-> 1, origin |-> Point(0, 10)]))>>,
      <<Entry("confetti", Obj([count |-> 2, speed |-> 10000, gravity |-> 0, origin |-> Point(5, 0)])),
        Entry("star", Obj([count |-> 1, speed |-> 0, gravity |-> 10000, origin |-> Point(5, 10)]))>> }

MouseStep == \E e \in MouseEvents : handleMouseMove(e)

InitView ==
    \E v \in Viewports : Constructed(MaxMaxParticles, TRUE) /\ Window(v[1], v[2])

NextView ==
    \/ TriggerStep(Given(ViewConfigs) \cup {<< >>}, Seeds, {0, DtSlow})
    \/ TickStep(MaxClock, {}, {TRUE})
    \/ MouseStep
    \/ StopStep

SpecView == InitView /\ [][NextView]_vars

----------------------------------------------------------------------------
(* The runs that vary the keys and the counts of the configuration.        *)

\* the configurations of these runs: keys outside the five kinds (mapped to
\* true, to false, to partial and to complete options), counts that are zero
\* or negative, the explicit { confetti: true }, and a star that never fades
\* and never moves (duration 0, speed 0, gravity 0)
KeyConfigs ==
    { NoArgConfig,
      <<Entry("confetti", Obj([count |-> 2])), Entry("sparkle", Bool(TRUE))>>,
      <<Entry("sparkle", Bool(FALSE)), Entry("heart", Obj([count |-> 1]))>>,
      <<Entry("sparkle", Obj([count |-> 2])), Entry("emoji", Obj([count |-> 1]))>>,
      <<Entry("sparkle", Obj([count |-> 1, gravity |-> 10, speed |-> 800, size |-> 10,
                              duration |-> 100, colors |-> << <<1, 2, 3>> >>, emoji |-> 1,
                              spread |-> 60])),
        Entry("star", Obj([count |-> 1]))>>,
      <<Entry("confetti", Obj([count |-> 0])), Entry("star", Obj([count |-> -1])),
        Entry("balloon", Obj([count |-> 1]))>>,
      <<Entry("star", Obj([count |-> 1, duration |-> 0, speed |-> 0, gravity |-> 0]))>> }

NextKeys ==
    \/ TriggerStep(Given(KeyConfigs) \cup {<< >>}, Seeds, {0, DtSlow})
    \/ TickStep(MaxClock, {}, BOOLEAN)
    \/ StopStep

SpecKeys == Init /\ [][NextKeys]_vars

----------------------------------------------------------------------------
(* Properties *)

\* the engine's own state, without the exploration's bookkeeping
engine == <<particlesRef, frameRef, rafQueue, isAnimating, lastFrameTimeRef, fpsRef,
            poorPerformanceDetectedRef>>

Idle == particlesRef = <<>> /\ frameRef = 0 /\ rafQueue = {} /\ ~isAnimating

\* the particles the last trigger kept from the population it found
Retained == SelectSeq(particlesRef, LAMBDA p : p.id < last.firstId)
\* the particles the last trigger created
Created == SelectSeq(particlesRef, LAMBDA p : p.id >= last.firstId)

\* C1: immediately after any trigger call the population size is at most
\* maxParticles.
C1_PopulationBound ==
    last.op = "trigger" => Len(particlesRef) <= maxParticles

\* C2: a trigger that finds the population at or over maxParticles retains
\* exactly the newest maxParticles/2 (integer part) pre-existing particles, in
\* their original order, for every maxParticles >= 1.
C2_EvictionKeepsNewestHalf ==
    (last.op = "trigger" /\ Len(last.before) >= maxParticles) =>
        Ids(Retained) = SubSeq(last.before,
                               Len(last.before) - (maxParticles \div 2) + 1,
                               Len(last.before))

\* C3: whenever the population is non-empty and a tick is scheduled,
\* isAnimating is true.
C3_AnimatingWhenRunning ==
    (particlesRef # <<>> /\ rafQueue # {}) => isAnimating

\* the newest instant at which a particle of the population stops being visible
\* by age: createdAt + duration
Expiry(ps) == LET ends == {ps[i].createdAt + ps[i].duration : i \in 1..Len(ps)}
              IN  CHOOSE e \in ends : \A f \in ends : f <= e

\* C4: after a single trigger whose particles all have a duration > 0, with
\* the canvas mounted and every scheduled tick eventually run, the engine
\* eventually is Idle (population empty, no tick scheduled, isAnimating
\* false), and it is so at the end of the first tick that runs once the clock
\* has reached creation time + duration.
C4_Termination ==
    /\ (last.op = "trigger") ~> Idle
    /\ [][(last'.op = "tick" /\ particlesRef # <<>> /\ clock' >= Expiry(particlesRef))
            => Idle']_vars

\* C4 witness: the tick that removed the last particles of the single trigger
\* and left the engine Idle
C4_Witness ==
    nTriggers = 1 /\ last.op = "tick" /\ last.before # <<>> /\ Idle

\* C5: stop() from any state leaves the population empty, no tick scheduled
\* and isAnimating false, and a second consecutive stop() changes nothing.
C5_StopIdempotent ==
    /\ [](last.op = "stop" => Idle)
    /\ [][(last.op = "stop" /\ last'.op = "stop") => UNCHANGED engine]_vars

\* C5 witness: stop() called on a population with a tick pending, then again
C5_Witness ==
    last.op = "stop" /\ last.prev = "stop" /\ Idle /\ nTriggers > 0

\* C6: after stop() no tick body runs until the next trigger, even when a
\* tick was pending when stop() was called.
C6_NoTickAfterStop ==
    [][last.op = "stop" => last'.op # "tick"]_vars

\* C6 witness: stop() was called while a tick was pending and a population
\* was live
C6_Witness ==
    last.op = "stop" /\ last.queued /\ last.before # <<>> /\ rafQueue = {}

\* the number of particles of kind k the last trigger created
CreatedOf(k) == Len(SelectSeq(Created, LAMBDA p : p.type = k))

\* C7: with the guard enabled, by the end of the 30th consecutive tick whose
\* interval corresponds to less than 30 fps while the population holds more
\* than 50 particles, the population is truncated to 50 and the
\* performance-degraded flag is set.
C7_BreakerAfter30 ==
    (last.op = "tick" /\ disableOnLowPerformance /\ slowRun >= FpsWindow) =>
        (poorPerformanceDetectedRef /\ Len(particlesRef) <= PerfKeep)

\* C8: once the performance-degraded flag is set, every trigger creates at
\* most 20 particles of each kind, whatever the configuration.
C8_DegradedClamp ==
    (last.op = "trigger" /\ last.degraded) =>
        \A k \in Kinds : CreatedOf(k) <= DegradedCount

\* C9: once set, the performance-degraded flag stays set: no trigger, tick or
\* stop() clears it.
C9_FlagSticky ==
    [][poorPerformanceDetectedRef => poorPerformanceDetectedRef']_vars

\* C9 witness: with the flag set, a trigger and then a fast frame ran, and the
\* flag is still set
C9_Witness ==
    /\ poorPerformanceDetectedRef /\ last.degraded
    /\ last.op = "tick" /\ ~last.slow /\ last.prev = "trigger"

\* C10: with disableOnLowPerformance = false the flag is never set, no tick
\* removes a particle other than by the visibility filter, and no trigger
\* has its counts clamped.
C10_GuardOff ==
    /\ [](~disableOnLowPerformance => ~poorPerformanceDetectedRef)
    /\ [][(~disableOnLowPerformance /\ last'.op = "tick") =>
            particlesRef' = IF last'.canvas THEN Cull(StepAll(particlesRef, clock'))
                            ELSE particlesRef]_vars
    /\ [][(~disableOnLowPerformance /\ last'.op = "trigger") =>
            Len(particlesRef') = Len(Evict(particlesRef, maxParticles))
                                 + Len(Plan(last'.config, 0, clock, nextId))]_vars

\* C10 witness: guard off, more than 30 consecutive slow frames with more than
\* 50 particles, and the population still holds more than 50
C10_Witness ==
    ~disableOnLowPerformance /\ slowRun > FpsWindow /\ Len(particlesRef) > PerfKeep

\* C11: every confetti particle created by trigger carries a shape that is one
\* of the five ConfettiShape values and an initialized shimmer phase.
C11_ConfettiShaped ==
    \A i \in 1..Len(particlesRef) :
        particlesRef[i].type = "confetti" =>
            /\ particlesRef[i].confettiShape # undefined
            /\ particlesRef[i].confettiShape[1] \in ConfettiShape
            /\ particlesRef[i].shimmerOffset # undefined

\* the config without the entries whose key is none of the five kinds
WithoutUnknown(config) == SelectSeq(config, LAMBDA e : e.key \in Kinds)

\* C12: a trigger whose config has a key that is not one of the five kinds
\* behaves as if the key were absent: it raises no error, creates no particle
\* for the key, and emits the particles of the valid kinds as usual.
C12_UnknownKeyIgnored ==
    last.op = "trigger" =>
        /\ ~last.threw
        /\ \A i \in 1..Len(Created) : Created[i].type \in Kinds
        /\ Len(Created) =
               Len(Plan(ClampConfig(WithoutUnknown(last.config), last.degraded), 0, clock, 0))

\* the entry asks for a count that is zero or negative
NonPositive(e) == e.val.tag = "object" /\ "count" \in DOMAIN e.val.o /\ e.val.o.count <= 0

\* C13: for a kind whose requested count is zero or negative, trigger creates
\* no particle of that kind and raises no error, in every controller state,
\* the performance-degraded one included.
C13_NonPositiveCount ==
    last.op = "trigger" =>
        /\ ~last.threw
        /\ \A i \in 1..Len(last.config) :
               NonPositive(last.config[i]) => CreatedOf(last.config[i].key) = 0

\* C14: after a tick that found the drawing surface unavailable, the next
\* trigger call schedules a tick, without a stop in between.
C14_RetriggerRecovers ==
    [][(last.op = "tick" /\ ~last.canvas /\ last'.op = "trigger" /\ ~last'.threw)
          => rafQueue' # {}]_vars

\* C15: a tick that runs while the drawing surface is unavailable changes no
\* particle, removes or truncates none, and schedules no following tick.
C15_SurfacelessTickNoOp ==
    [][(last'.op = "tick" /\ clock' # clock /\ ~last'.canvas)
          => (particlesRef' = particlesRef /\ rafQueue' = {})]_vars

\* the particles of post are particles of pre, in the same order, and none
\* with duration > 0 has a greater alpha than it had in pre
NoRise(pre, post) ==
    LET ids == {post[j].id : j \in 1..Len(post)}
        kept == SelectSeq(pre, LAMBDA p : p.id \in ids)
    IN  /\ Len(kept) = Len(post)
        /\ \A j \in 1..Len(post) :
              /\ kept[j].id = post[j].id
              /\ post[j].duration > 0 => post[j].alpha <= kept[j].alpha

\* C16: the alpha of a particle with duration > 0 never increases from one
\* tick to the next; after a tick that ran the physics step it is
\* max(0, 1 - age / duration), and it is 0 once the age has reached the
\* duration, so that no survivor of the tick is that old.
C16_AlphaMonotone ==
    [][(last'.op = "tick" /\ clock' # clock) =>
          /\ NoRise(particlesRef, particlesRef')
          /\ last'.canvas =>
                \A i \in 1..Len(particlesRef') :
                    LET q == particlesRef'[i]
                    IN  q.duration > 0 =>
                           /\ q.alpha * q.duration =
                                 AlphaOne * q.duration - (clock' - q.createdAt) * AlphaOne
                           /\ clock' - q.createdAt < q.duration]_vars

\* a tick has just faded the survivors and removed an expired particle
C16_Witness ==
    /\ last.op = "tick" /\ last.canvas
    /\ Len(particlesRef) < Len(last.before)
    /\ \E i \in 1..Len(particlesRef) :
          /\ particlesRef[i].duration > 0
          /\ particlesRef[i].alpha \in 1..(AlphaOne - 1)

\* the entry of the last trigger's config that created particle p
EntryOf(p) ==
    last.config[CHOOSE i \in 1..Len(last.config) : last.config[i].key = p.type]

\* the entry gives an origin option
HasOrigin(e) == e.val.tag = "object" /\ "origin" \in DOMAIN e.val.o

\* C17: an explicit fractional origin {x, y} emits every particle of the kind
\* at (x * viewportWidth, y * viewportHeight) and origin "center" emits at
\* (viewportWidth / 2, viewportHeight / 2), so {x: 0.5, y: 0.5} and "center"
\* give the same point in every viewport, (500, 400) for 1000 by 800.
C17_OriginResolution ==
    last.op = "trigger" =>
        /\ \A i \in 1..Len(Created) :
              LET p == Created[i]
                  e == EntryOf(p)
              IN  HasOrigin(e) =>
                     /\ e.val.o.origin.tag = "point" =>
                           /\ 10 * p.x = e.val.o.origin.x * innerWidth
                           /\ 10 * p.y = e.val.o.origin.y * innerHeight
                     /\ e.val.o.origin.tag = "center" =>
                           /\ 2 * p.x = innerWidth
                           /\ 2 * p.y = innerHeight
                     /\ (e.val.o.origin \in {Point(5, 5), Center}
                           /\ innerWidth = 100000 /\ innerHeight = 80000) =>
                           (p.x = 50000 /\ p.y = 40000)
        /\ getOrigin(Point(5, 5)) = getOrigin(Center)

\* in the 1000 by 800 viewport a trigger has emitted with origin {0.5, 0.5}
C17_Witness ==
    /\ last.op = "trigger"
    /\ innerWidth = 100000 /\ innerHeight = 80000
    /\ \E i \in 1..Len(Created) :
          /\ HasOrigin(EntryOf(Created[i]))
          /\ EntryOf(Created[i]).val.o.origin = Point(5, 5)
          /\ Created[i].x = 50000 /\ Created[i].y = 40000

\* C18: the particles of a kind whose options give no origin (a kind given as
\* true and the no-argument trigger included) are emitted at
\* (0.5 * viewportWidth, 0.9 * viewportHeight), not at the viewport centre.
C18_DefaultOrigin ==
    last.op = "trigger" =>
        \A i \in 1..Len(Created) :
            LET p == Created[i]
            IN  ~HasOrigin(EntryOf(p)) =>
                   /\ 10 * p.x = 5 * innerWidth
                   /\ 10 * p.y = 9 * innerHeight
                   /\ 2 * p.y # innerHeight

\* a no-argument trigger has emitted its confetti at the bottom centre
C18_Witness ==
    /\ last.op = "trigger" /\ last.noArg
    /\ Len(Created) > 0
    /\ \A i \in 1..Len(Created) :
          10 * Created[i].x = 5 * innerWidth /\ 10 * Created[i].y = 9 * innerHeight

\* the entry's value is truthy: true, or an options object
Truthy(e) == e.val.tag = "object" \/ e.val.b

\* C19: trigger creates particles only for the kinds present with a truthy
\* value in the config, and trigger without argument behaves exactly as
\* trigger({confetti: true}): when performance is not degraded it appends
\* exactly 150 confetti particles and none of another kind.
C19_TruthyKindsOnly ==
    /\ [](last.op = "trigger" =>
            /\ \A i \in 1..Len(Created) :
                  \E j \in 1..Len(last.config) :
                      last.config[j].key = Created[i].type /\ Truthy(last.config[j])
            /\ (last.noArg /\ ~last.degraded) =>
                  /\ Len(Created) = 150
                  /\ \A i \in 1..Len(Created) : Created[i].type = "confetti")
    /\ [][(last'.op = "trigger" /\ nTriggers' # nTriggers /\ last'.noArg) =>
             /\ ~last'.threw
             /\ particlesRef' =
                   Evict(particlesRef, maxParticles)
                       \o Plan(ClampConfig(<<Entry("confetti", Bool(TRUE))>>,
                                           poorPerformanceDetectedRef), 0, clock, nextId)
             /\ frameRef' # 0]_vars

\* a trigger without argument has appended its 150 confetti to a population
\* that an earlier trigger left
C19_Witness ==
    /\ last.op = "trigger" /\ last.noArg /\ ~last.degraded
    /\ last.before # << >>
    /\ Len(Created) = 150
    /\ Len(particlesRef) > 150

\* C20: after any sequence of trigger, tick and stop operations, ticks that
\* find the drawing surface unavailable included, the population is empty
\* whenever no tick is pending.
C20_PendingWhileLive == rafQueue = {} => particlesRef = << >>

\* C21: at most one tick is pending at any time, across every interleaving of
\* trigger, tick and stop: a trigger issued while a tick is pending schedules
\* no second one, and a tick schedules at most one successor.
C21_SinglePendingTick ==
    /\ Cardinality(rafQueue) <= 1
    /\ rafQueue \subseteq {frameRef}

\* a trigger has been issued while the successor of a tick was pending
C21_Witness ==
    /\ last.op = "trigger" /\ last.prev = "tick" /\ last.queued
    /\ Cardinality(rafQueue) = 1
    /\ nTriggers > 1

\* the particle is to be removed: faded out, or more than 100 px above the
\* top or below the bottom of the viewport
Removable(p) == p.alpha <= 0 \/ p.y > innerHeight + CullMargin \/ p.y < -CullMargin

\* C22: a tick with the surface available removes exactly the particles whose
\* alpha is <= 0 after the physics step or that are more than 100 units above
\* the top or below the bottom of the viewport; every other particle, one
\* exactly 100 units outside included, is retained, in the same order.
C22_CullExactly ==
    [][(last'.op = "tick" /\ clock' # clock /\ last'.canvas) =>
          particlesRef' =
              SelectSeq(StepAll(particlesRef, clock'), LAMBDA p : ~Removable(p))]_vars

\* the entry gives a colors option
HasColors(e) == e.val.tag = "object" /\ "colors" \in DOMAIN e.val.o

\* C23: a balloon emitted for a config that gives no explicit colors for the
\* balloon kind (balloon: true for one) gets a generated colour with red and
\* blue in 200..254 and green in 150..204, not a colour of a palette.
C23_BalloonBright ==
    last.op = "trigger" =>
        \A i \in 1..Len(Created) :
            LET p == Created[i]
            IN  (p.type = "balloon" /\ ~HasColors(EntryOf(p))) =>
                   /\ p.color[1] \in 200..254
                   /\ p.color[2] \in 150..204
                   /\ p.color[3] \in 200..254

\* the particles of pre that are still in post, in the order of pre
Survivors(pre, post) ==
    LET ids == {post[j].id : j \in 1..Len(post)}
    IN  SelectSeq(pre, LAMBDA p : p.id \in ids)

\* C24: a tick leaves a balloon's vx, vy, gravity, drag and rotation
\* unchanged; a balloon's vy is in [-2.0, -0.5], so its y strictly decreases
\* on every tick, whatever gravity the config supplied.
C24_BalloonRises ==
    [][(last'.op = "tick" /\ clock' # clock /\ last'.canvas) =>
          LET before == Survivors(particlesRef, particlesRef')
          IN  /\ Len(before) = Len(particlesRef')
              /\ \A j \in 1..Len(particlesRef') :
                    LET p == before[j]
                        q == particlesRef'[j]
                    IN  (p.id = q.id /\ q.type = "balloon") =>
                           /\ <<q.vx, q.vy, q.gravity, q.drag, q.rotation>>
                                 = <<p.vx, p.vy, p.gravity, p.drag, p.rotation>>
                           /\ p.vy \in -200..-50
                           /\ q.y < p.y]_vars

\* a tick has moved a balloon created with a gravity of 5 up from its origin
C24_Witness ==
    /\ last.op = "tick" /\ last.canvas
    /\ \E i \in 1..Len(particlesRef) :
          /\ particlesRef[i].type = "balloon"
          /\ particlesRef[i].gravity = 500
          /\ 10 * particlesRef[i].y < 7 * innerHeight

\* a particle that never fades and never leaves the vertical bounds
Eternal(p) == p.duration = 0 /\ p.type # "balloon" /\ p.vy = 0 /\ p.gravity = 0

\* C25: a particle created with duration 0 keeps alpha = 1; while the
\* population holds such a particle that never leaves the vertical bounds, a
\* tick is scheduled and the engine is not Idle.
C25_EternalTick ==
    \A i \in 1..Len(particlesRef) :
        LET p == particlesRef[i]
        IN  /\ p.duration = 0 => p.alpha = AlphaOne
            /\ Eternal(p) => rafQueue # {} /\ ~Idle

\* C26: a trigger issued while the population is below maxParticles removes
\* and modifies no particle: the population after the call is the previous
\* population, in the same order, followed by the particles the call created.
C26_Accumulates ==
    [][(last'.op = "trigger" /\ nTriggers' # nTriggers /\ Len(particlesRef) < maxParticles) =>
          /\ Len(particlesRef') = Len(particlesRef) + (nextId' - nextId)
          /\ SubSeq(particlesRef', 1, Len(particlesRef)) = particlesRef
          /\ \A j \in (Len(particlesRef) + 1)..Len(particlesRef') :
                particlesRef'[j].id >= nextId /\ particlesRef'[j].createdAt = clock]_vars

\* a second trigger, after a tick, has added its particles behind those of
\* the first, which were fewer than maxParticles
C26_Witness ==
    /\ last.op = "trigger" /\ last.prev = "tick" /\ nTriggers = 2
    /\ last.before # << >> /\ Len(last.before) < maxParticles
    /\ Len(particlesRef) > Len(last.before)
    /\ SubSeq(Ids(particlesRef), 1, Len(last.before)) = last.before

\* C27: a tick on which the performance breaker cuts the population keeps
\* the first 50 particles in insertion order, the oldest, and discards every
\* newer one; what the capacity eviction of a trigger keeps is the other end
\* of the population, the newest.
C27_BreakerKeepsOldest ==
    /\ (last.op = "tick" /\ Len(last.before) > PerfKeep /\ Len(particlesRef) <= PerfKeep) =>
          Ids(particlesRef) = SubSeq(last.before, 1, PerfKeep)
    /\ last.op = "trigger" =>
          \E k \in 0..Len(last.before) :
              Ids(Retained) = SubSeq(last.before, k + 1, Len(last.before))

\* the breaker has just cut a population of more than 50 to its oldest 50
C27_Witness ==
    /\ last.op = "tick" /\ poorPerformanceDetectedRef
    /\ Len(last.before) > PerfKeep /\ Len(particlesRef) = PerfKeep
    /\ Ids(particlesRef) = SubSeq(last.before, 1, PerfKeep)
    /\ particlesRef[PerfKeep].id < last.before[Len(last.before)]

\* C28: a trigger changes the config it was passed only when the
\* performance-degraded flag is set, and then only by writing the clamped
\* count into each entry that is an options object; an entry given as true
\* or false and every other option field are as the caller passed them.
C28_ConfigUntouched ==
    last.op = "trigger" =>
        /\ ~last.degraded => last.configAfter = last.config
        /\ Len(last.configAfter) = Len(last.config)
        /\ \A i \in 1..Len(last.config) :
              LET e == last.config[i]
                  a == last.configAfter[i]
                  own == IF "count" \in DOMAIN e.val.o THEN e.val.o.count ELSE 0
                  want == IF own # 0 THEN own ELSE DEFAULT_CONFIG[e.key].count
              IN  /\ a.key = e.key
                  /\ e.val.tag = "bool" => a = e
                  /\ e.val.tag = "object" =>
                        /\ a.val.tag = "object"
                        /\ DOMAIN a.val.o \subseteq DOMAIN e.val.o \cup {"count"}
                        /\ \A f \in DOMAIN e.val.o \ {"count"} :
                              f \in DOMAIN a.val.o /\ a.val.o[f] = e.val.o[f]
                        /\ last.degraded =>
                              a.val.o.count = IF want < DegradedCount THEN want
                                              ELSE DegradedCount

\* a trigger under degraded performance has lowered the count of an options
\* object that has other fields, next to an entry given as true
C28_Witness ==
    /\ last.op = "trigger" /\ last.degraded /\ last.configAfter # last.config
    /\ \E i, j \in 1..Len(last.config) :
          /\ last.config[i].val.tag = "bool"
          /\ last.config[j].val.tag = "object"
          /\ "gravity" \in DOMAIN last.config[j].val.o
          /\ last.configAfter[j].val.o.count < last.config[j].val.o.count

====
